---- MODULE Spec2Model ----
(***************************************************************************)
(* reddit_decider: the request-scoped experiments client.                  *)
(*                                                                         *)
(* One DeciderContextFactory owns one FileWatcher over the rule file.  For *)
(* each request make_object_for_context reads the watcher once (warm-up),  *)
(* assembles a DeciderContext from the edge context and returns a Decider; *)
(* Decider.get_variant reads the watcher again, asks the engine handle to  *)
(* choose and returns the variant or None.                                 *)
(*                                                                         *)
(* Python values are written as strings: None is "None", a str s is s,     *)
(* the booleans are "True" and "False".                                    *)
(***************************************************************************)
EXTENDS Integers, Sequences, FiniteSets, TLC

(***************************************************************************)
(* Bounds of the model.                                                    *)
(***************************************************************************)
MaxWrites == 2    \* writes of the rule file by the fetcher
MaxFaults == 2    \* accesses of one request that raise

\* The request threads that share the factory's watcher.
Threads == {1, 2}

(***************************************************************************)
(* Python values.                                                          *)
(***************************************************************************)
PyNone == "None"
PyTrue == "True"
PyFalse == "False"
PyBool(b) == IF b THEN PyTrue ELSE PyFalse
\* Python truth value of a value of this model: None, "", False and 0 are falsy.
Truthy(v) == v \notin {PyNone, "", PyFalse, "0"}

EMPLOYEE_ROLES == {"employee", "contractor"}

EVENT_TYPE == "expose"

ExperimentNames == {"new_checkout", "geo_test"}

(***************************************************************************)
(* The rule file and the engine.  A file is [kind, mtime]: kind is what    *)
(* the fetcher left on disk, mtime the time of its last write.  The handle *)
(* rust_decider.init returns for the content written at time m is          *)
(* Handle(m).                                                              *)
(***************************************************************************)
FileKinds == {"missing", "good", "malformed", "mistyped"}
WrittenKinds == FileKinds \ {"missing"}

Handle(m) == "handle" \o ToString(m)

\* Outcome of a call: it returns a value or raises an exception.
Return(v) == [tag |-> "return", val |-> v]
Raise(e) == [tag |-> "raise", val |-> e]

\* init_decider_parser(file): rust_decider.init over the opened file.
init_decider_parser(f) ==
    IF f.kind = "good" THEN Return(Handle(f.mtime))
    ELSE IF f.kind = "mistyped" THEN Raise("TypeError")
    ELSE Raise("DeciderInitError")

(***************************************************************************)
(* FileWatcher (baseplate.lib.file_watcher), the collaborator behind the   *)
(* factory: it returns the latest successfully parsed value or signals     *)
(* that none is available yet.                                             *)
(***************************************************************************)
NOT_LOADED == "_NOT_LOADED"

\* os.path.getmtime(path) as get_data sees it.
Stat(f) ==
    IF f.kind = "missing" THEN [tag |-> "OSError", mtime |-> 0]
    ELSE [tag |-> "mtime", mtime |-> f.mtime]
NoStat == [tag |-> "", mtime |-> 0]

\* get_data, first half: stat the file and decide whether to reload; the set
\* of the outcomes it may have.  With the file gone and nothing loaded it
\* signals unavailability.  With the file gone and data loaded the watcher
\* either serves the data it holds or signals unavailability: the source
\* handles the signal on every read and does not fix which, so both are kept.
FWStat(f, data, mtime) ==
    IF f.kind = "missing"
    THEN IF data = NOT_LOADED THEN {Raise("WatchedFileNotAvailableError")}
         ELSE {Return(data), Raise("WatchedFileNotAvailableError")}
    ELSE IF mtime < f.mtime THEN {[tag |-> "load", val |-> ""]}
    ELSE {Return(data)}

\* get_data, second half: open and parse; a failure keeps the cached data,
\* and with nothing cached it is reported as unavailability (a type
\* mismatch as TypeError).  The result is [parsed, data, out].
FWLoad(f, data) ==
    LET p == IF f.kind = "missing" THEN Raise("OSError") ELSE init_decider_parser(f)
    IN  IF p.tag = "return"
        THEN [parsed |-> TRUE, data |-> p.val, out |-> Return(p.val)]
        ELSE IF data = NOT_LOADED
        THEN [parsed |-> FALSE, data |-> data,
              out |-> IF p.val = "TypeError" THEN Raise("TypeError")
                      ELSE Raise("WatchedFileNotAvailableError")]
        ELSE [parsed |-> FALSE, data |-> data, out |-> Return(data)]

(***************************************************************************)
(* DeciderContext.                                                         *)
(***************************************************************************)
TargetingKeys ==
    {"user_id", "country_code", "user_is_employee", "logged_in", "device_id",
     "request_url", "authentication_token", "app_name", "build_number", "loid",
     "cookie_created_timestamp"}

CtxParams == TargetingKeys \cup {"user_event_fields"}

\* DeciderContext.__init__(**kw): every parameter but user_id defaults to None.
DeciderContext(kw) ==
    [p \in CtxParams |-> IF p \in DOMAIN kw THEN kw[p] ELSE PyNone]

\* to_dict with "or ''" on every value.
to_dict_coercing(ctx) ==
    [k \in TargetingKeys |-> IF ctx[k] = PyNone THEN "" ELSE ctx[k]]

\* DeciderContext.to_dict()
to_dict(ctx) == [k \in TargetingKeys |-> ctx[k]]

(***************************************************************************)
(* The request make_object_for_context works on.  raises is the set of     *)
(* accesses that raise for this request; the other fields are the values   *)
(* the edge context carries.                                               *)
(***************************************************************************)
OutsideTry == {"edgecontext", "request_field_extractor", "event_fields"}
InsideTry ==
    {"user.id", "loid.id", "geolocation.country_code", "user.is_logged_in",
     "user.has_role", "device.id", "request_url", "authentication_token"}
Accesses == OutsideTry \cup InsideTry

RoleSets == {{}, {"employee"}, {"contractor"}, {"admin"}, {"admin", "employee"}}

FaultSets == {S \in SUBSET Accesses : Cardinality(S) <= MaxFaults}

AllRequests ==
    [raises : FaultSets,
     logged_in : BOOLEAN,
     roles : RoleSets,
     country_code : {PyNone, "", "US"},
     cookie : {PyNone, "0", "1600"},
     extractor : {"absent", "present"}]

\* ec.user.event_fields(), written as the text of the mapping.
event_fields(r) == "{user_id: t2_abc, cookie_created_timestamp: " \o r.cookie \o "}"

\* self._request_field_extractor(request) when one is configured, else {}.
extracted_fields(r) ==
    IF r.extractor = "present" THEN [app_name |-> "ios"] ELSE << >>

DictGet(d, k) == IF k \in DOMAIN d THEN d[k] ELSE PyNone

\* is_employee without the is_logged_in condition.
is_employee_any_login(r) == \E role \in EMPLOYEE_ROLES : role \in r.roles

\* DeciderContextFactory.is_employee(edge_context)
is_employee(r) ==
    IF r.logged_in THEN \E role \in EMPLOYEE_ROLES : role \in r.roles ELSE FALSE

\* The accesses the full construction performs for request r: has_role is
\* called only for a logged-in user, the extractor only when configured.
Performed(r) ==
    (Accesses \ (IF r.logged_in THEN {} ELSE {"user.has_role"}))
        \ (IF r.extractor = "present" THEN {} ELSE {"request_field_extractor"})

\* The keyword arguments of the full DeciderContext(...) call.
FullKwargs(r) ==
    [user_id |-> "t2_abc",
     loid |-> "loid_1",
     country_code |-> r.country_code,
     user_is_employee |-> PyBool(is_employee(r)),
     logged_in |-> PyBool(r.logged_in),
     device_id |-> "device_1",
     request_url |-> "/r/all",
     authentication_token |-> "token_1",
     app_name |-> DictGet(extracted_fields(r), "app_name"),
     build_number |-> DictGet(extracted_fields(r), "build_number"),
     cookie_created_timestamp |-> r.cookie,
     user_event_fields |-> event_fields(r)]

MinimalKwargs(r) == [user_id |-> "t2_abc"]

\* make_object_for_context after the warm-up read: the keyword arguments the
\* DeciderContext is built from, or the exception that leaves the call.
BuildContext(r) ==
    IF Performed(r) \cap OutsideTry \cap r.raises # {}
    THEN Raise(IF "edgecontext" \in r.raises THEN "AttributeError" ELSE "Exception")
    ELSE IF Performed(r) \cap InsideTry \cap r.raises = {}
    THEN Return(FullKwargs(r))
    ELSE IF "user.id" \in r.raises THEN Raise("AttributeError")
    ELSE Return(MinimalKwargs(r))

(***************************************************************************)
(* Decider.                                                                *)
(***************************************************************************)
CaughtOnRead == {"WatchedFileNotAvailableError", "TypeError"}

\* _get_decider without the try/except.
_get_decider_uncaught(out) == out

\* _get_decider without the except TypeError clause.
_get_decider_no_typeerror(out) ==
    IF out.tag = "return" THEN out
    ELSE IF out.val = "WatchedFileNotAvailableError" THEN Return(PyNone)
    ELSE out

\* Decider._get_decider: the outcome of self._config_watcher.get_data() as
\* the try/except hands it on.
_get_decider(out) ==
    IF out.tag = "return" THEN out
    ELSE IF out.val \in CaughtOnRead THEN Return(PyNone)
    ELSE out

\* The warm-up read of make_object_for_context: the data is dropped.
warmup_read(out) ==
    IF out.tag = "return" THEN Return(PyNone)
    ELSE IF out.val \in CaughtOnRead THEN Return(PyNone)
    ELSE out

\* get_variant without the None check.
decider_unavailable_unchecked(d) == FALSE

\* get_variant: "if decider is None".
decider_unavailable(d) == d = PyNone

\* What decider.choose may answer: an error indicator and a decision.
Choices ==
    [err : {PyNone, "", "invalid targeting field"},
     decision : {PyNone, "", "treatment"}]

\* get_variant that looks at the decision before the error.
get_variant_result_decision_first(c) ==
    IF Truthy(c.decision) THEN c.decision
    ELSE IF Truthy(c.err) THEN PyNone
    ELSE c.decision

\* get_variant: the value returned once choose has answered.
get_variant_result(c) == IF Truthy(c.err) THEN PyNone ELSE c.decision

\* get_variant with the exposure of its else branch enabled.
exposure_calls_enabled(experiment, c) ==
    IF Truthy(c.err) THEN << >>
    ELSE <<[experiment |-> experiment, variant |-> c.decision, event_type |-> EVENT_TYPE]>>

\* get_variant: the calls of self._event_logger.log it makes for the answer
\* (the else branch is "pass", the exposure is commented out).
exposure_calls(experiment, c) == << >>

(***************************************************************************)
(* State.                                                                  *)
(***************************************************************************)
VARIABLES
    file,        \* the rule file on disk: [kind, mtime]
    fw_data,     \* FileWatcher._data
    fw_mtime,    \* FileWatcher._mtime
    parsed,      \* the handles completed successful parses have produced
    pc,          \* per thread: where its request stands
    req,         \* per thread: the request being served
    kwargs,      \* per thread: the arguments its DeciderContext was built from
    ctx,         \* per thread: Decider._decider_context
    seen,        \* per thread: the mtime get_data saw, while it loads
    readExc,     \* per thread: the exception its last get_data raised, or ""
    decider,     \* per thread: what _get_decider returned
    name,        \* per thread: experiment_name of the running get_variant
    choice,      \* per thread: what choose answered
    chosenWith,  \* per thread: the arguments choose was invoked with
    exposures,   \* per thread: the log calls of the running get_variant
    result,      \* per thread: what get_variant returned
    raised       \* per thread: the exception that left a call, and where

vars ==
    <<file, fw_data, fw_mtime, parsed, pc, req, kwargs, ctx, seen, readExc,
      decider, name, choice, chosenWith, exposures, result, raised>>

watcherVars == <<fw_data, fw_mtime, parsed>>
requestVars == <<req, kwargs, ctx>>
callVars == <<decider, name, choice, chosenWith, exposures, result>>

IdleRequest ==
    [raises |-> {}, logged_in |-> FALSE, roles |-> {}, country_code |-> PyNone,
     cookie |-> PyNone, extractor |-> "absent"]
NoKwargs == [user_id |-> PyNone]
NoChoice == [err |-> PyNone, decision |-> PyNone]
NoCall ==
    [called |-> FALSE, handle |-> PyNone, experiment |-> PyNone,
     ctx |-> to_dict(DeciderContext(NoKwargs))]
NoRaise == [in |-> "", exc |-> ""]

\* The requests of the threads that share the watcher: one that builds the
\* full context, one that falls back, one whose extractor raises.
FullRequest ==
    [raises |-> {}, logged_in |-> TRUE, roles |-> {"employee"}, country_code |-> "US",
     cookie |-> "1600", extractor |-> "present"]
SharedRequests ==
    {FullRequest,
     [FullRequest EXCEPT !.raises = {"loid.id"}],
     [FullRequest EXCEPT !.raises = {"request_field_extractor"}]}

\* DeciderContextFactory.__init__: a watcher that has loaded nothing yet, over
\* a file that is missing or holds its first content.
Init ==
    /\ file \in {[kind |-> "missing", mtime |-> 0]}
                 \cup [kind : WrittenKinds, mtime : {1}]
    /\ fw_data = NOT_LOADED
    /\ fw_mtime = 0
    /\ parsed = {}
    /\ pc = [t \in Threads |-> "idle"]
    /\ req = [t \in Threads |-> IdleRequest]
    /\ kwargs = [t \in Threads |-> NoKwargs]
    /\ ctx = [t \in Threads |-> DeciderContext(NoKwargs)]
    /\ seen = [t \in Threads |-> NoStat]
    /\ readExc = [t \in Threads |-> ""]
    /\ decider = [t \in Threads |-> PyNone]
    /\ name = [t \in Threads |-> PyNone]
    /\ choice = [t \in Threads |-> NoChoice]
    /\ chosenWith = [t \in Threads |-> NoCall]
    /\ exposures = [t \in Threads |-> << >>]
    /\ result = [t \in Threads |-> PyNone]
    /\ raised = [t \in Threads |-> NoRaise]

(***************************************************************************)
(* The fetcher rewrites or removes the rule file.                          *)
(***************************************************************************)
FetcherWrite ==
    /\ file.mtime < MaxWrites
    /\ \E k \in WrittenKinds : file' = [kind |-> k, mtime |-> file.mtime + 1]
    /\ UNCHANGED <<watcherVars, pc, requestVars, seen, readExc, callVars, raised>>

FetcherDelete ==
    /\ file.kind # "missing"
    /\ file' = [file EXCEPT !.kind = "missing"]
    /\ UNCHANGED <<watcherVars, pc, requestVars, seen, readExc, callVars, raised>>

(***************************************************************************)
(* make_object_for_context.                                                *)
(***************************************************************************)
\* The warm-up read is over with outcome out.
AfterWarmup(t, out) ==
    LET r == warmup_read(out)
    IN  /\ readExc' = [readExc EXCEPT ![t] = IF out.tag = "raise" THEN out.val ELSE ""]
        /\ IF r.tag = "raise"
           THEN /\ pc' = [pc EXCEPT ![t] = "raised"]
                /\ raised' = [raised EXCEPT ![t] = [in |-> "warm-up read", exc |-> r.val]]
           ELSE /\ pc' = [pc EXCEPT ![t] = "assemble"]
                /\ UNCHANGED raised

\* self._filewatcher.get_data(): stat.
WarmStat(t) ==
    /\ pc[t] = "idle"
    /\ \E s \in FWStat(file, fw_data, fw_mtime) :
           IF s.tag = "load"
           THEN /\ pc' = [pc EXCEPT ![t] = "warm_load"]
                /\ seen' = [seen EXCEPT ![t] = Stat(file)]
                /\ UNCHANGED <<readExc, raised>>
           ELSE /\ AfterWarmup(t, s)
                /\ UNCHANGED seen
    /\ UNCHANGED <<file, watcherVars, requestVars, callVars>>

\* self._filewatcher.get_data(): load and publish.
WarmLoad(t) ==
    /\ pc[t] = "warm_load"
    /\ LET l == FWLoad(file, fw_data)
       IN  /\ fw_data' = l.data
           /\ fw_mtime' = IF l.out.tag = "raise" THEN fw_mtime ELSE seen[t].mtime
           /\ parsed' = IF l.parsed THEN parsed \cup {l.data} ELSE parsed
           /\ AfterWarmup(t, l.out)
    /\ seen' = [seen EXCEPT ![t] = NoStat]
    /\ UNCHANGED <<file, requestVars, callVars>>

\* The context is assembled and the Decider returned, or the call raises.
Assemble(t, Requests) ==
    /\ pc[t] = "assemble"
    /\ \E r \in Requests :
          LET b == BuildContext(r)
          IN  /\ req' = [req EXCEPT ![t] = r]
              /\ IF b.tag = "raise"
                 THEN /\ pc' = [pc EXCEPT ![t] = "raised"]
                      /\ raised' = [raised EXCEPT
                             ![t] = [in |-> "context assembly", exc |-> b.val]]
                      /\ UNCHANGED <<kwargs, ctx>>
                 ELSE /\ pc' = [pc EXCEPT ![t] = "ready"]
                      /\ kwargs' = [kwargs EXCEPT ![t] = b.val]
                      /\ ctx' = [ctx EXCEPT ![t] = DeciderContext(b.val)]
                      /\ UNCHANGED raised
    /\ UNCHANGED <<file, watcherVars, seen, readExc, callVars>>

\* The request is over: its Decider is dropped.
EndRequest(t) ==
    /\ pc[t] \in {"ready", "raised"}
    /\ pc' = [pc EXCEPT ![t] = "idle"]
    /\ req' = [req EXCEPT ![t] = IdleRequest]
    /\ kwargs' = [kwargs EXCEPT ![t] = NoKwargs]
    /\ ctx' = [ctx EXCEPT ![t] = DeciderContext(NoKwargs)]
    /\ raised' = [raised EXCEPT ![t] = NoRaise]
    /\ readExc' = [readExc EXCEPT ![t] = ""]
    /\ seen' = [seen EXCEPT ![t] = NoStat]
    /\ decider' = [decider EXCEPT ![t] = PyNone]
    /\ name' = [name EXCEPT ![t] = PyNone]
    /\ UNCHANGED <<file, watcherVars, choice, chosenWith, exposures, result>>

(***************************************************************************)
(* Decider.get_variant.                                                    *)
(***************************************************************************)
\* _get_decider is over with the watcher's outcome out.
AfterGetDecider(t, out) ==
    LET r == _get_decider(out)
    IN  /\ readExc' = [readExc EXCEPT ![t] = IF out.tag = "raise" THEN out.val ELSE ""]
        /\ IF r.tag = "raise"
           THEN /\ pc' = [pc EXCEPT ![t] = "raised"]
                /\ raised' = [raised EXCEPT ![t] = [in |-> "_get_decider", exc |-> r.val]]
                /\ UNCHANGED decider
           ELSE /\ pc' = [pc EXCEPT ![t] = "gv_choose"]
                /\ decider' = [decider EXCEPT ![t] = r.val]
                /\ UNCHANGED raised

\* get_variant(experiment_name) is called; _get_decider: get_data stats.
GvStat(t) ==
    /\ pc[t] = "ready"
    /\ \E n \in ExperimentNames : name' = [name EXCEPT ![t] = n]
    /\ \E s \in FWStat(file, fw_data, fw_mtime) :
           IF s.tag = "load"
           THEN /\ pc' = [pc EXCEPT ![t] = "gv_load"]
                /\ seen' = [seen EXCEPT ![t] = Stat(file)]
                /\ UNCHANGED <<readExc, raised, decider>>
           ELSE /\ AfterGetDecider(t, s)
                /\ UNCHANGED seen
    /\ UNCHANGED <<file, watcherVars, requestVars, choice, chosenWith, exposures, result>>

\* _get_decider: get_data loads and publishes.
GvLoad(t) ==
    /\ pc[t] = "gv_load"
    /\ LET l == FWLoad(file, fw_data)
       IN  /\ fw_data' = l.data
           /\ fw_mtime' = IF l.out.tag = "raise" THEN fw_mtime ELSE seen[t].mtime
           /\ parsed' = IF l.parsed THEN parsed \cup {l.data} ELSE parsed
           /\ AfterGetDecider(t, l.out)
    /\ seen' = [seen EXCEPT ![t] = NoStat]
    /\ UNCHANGED <<file, requestVars, name, choice, chosenWith, exposures, result>>

\* The rest of get_variant: the None check, choose, the error check, the
\* exposure and the return.
GvChoose(t) ==
    /\ pc[t] = "gv_choose"
    /\ pc' = [pc EXCEPT ![t] = "gv_returned"]
    /\ IF decider_unavailable(decider[t])
       THEN /\ result' = [result EXCEPT ![t] = PyNone]
            /\ UNCHANGED <<choice, chosenWith, exposures>>
       ELSE \E c \in Choices :
              /\ chosenWith' = [chosenWith EXCEPT
                     ![t] = [called |-> TRUE, handle |-> decider[t],
                             experiment |-> name[t], ctx |-> to_dict(ctx[t])]]
              /\ choice' = [choice EXCEPT ![t] = c]
              /\ exposures' = [exposures EXCEPT ![t] = exposure_calls(name[t], c)]
              /\ result' = [result EXCEPT ![t] = get_variant_result(c)]
    /\ UNCHANGED <<file, watcherVars, requestVars, seen, readExc, decider, name, raised>>

\* The caller has the result; the Decider is ready for the next call.
GvReturn(t) ==
    /\ pc[t] = "gv_returned"
    /\ pc' = [pc EXCEPT ![t] = "ready"]
    /\ seen' = [seen EXCEPT ![t] = NoStat]
    /\ readExc' = [readExc EXCEPT ![t] = ""]
    /\ decider' = [decider EXCEPT ![t] = PyNone]
    /\ name' = [name EXCEPT ![t] = PyNone]
    /\ choice' = [choice EXCEPT ![t] = NoChoice]
    /\ chosenWith' = [chosenWith EXCEPT ![t] = NoCall]
    /\ exposures' = [exposures EXCEPT ![t] = << >>]
    /\ result' = [result EXCEPT ![t] = PyNone]
    /\ UNCHANGED <<file, watcherVars, requestVars, raised>>

(***************************************************************************)
(* Specifications.  Spec: the threads of a process share the watcher while *)
(* the fetcher rewrites the file.  SpecCtx: one thread builds contexts for *)
(* every request of AllRequests.                                           *)
(***************************************************************************)
Next ==
    \/ FetcherWrite
    \/ FetcherDelete
    \/ \E t \in Threads :
          \/ WarmStat(t)
          \/ WarmLoad(t)
          \/ Assemble(t, SharedRequests)
          \/ GvStat(t)
          \/ GvLoad(t)
          \/ GvChoose(t)
          \/ GvReturn(t)
          \/ EndRequest(t)

Spec == Init /\ [][Next]_vars

NextCtx ==
    \/ WarmStat(1)
    \/ WarmLoad(1)
    \/ Assemble(1, AllRequests)
    \/ EndRequest(1)

SpecCtx == Init /\ [][NextCtx]_vars

(***************************************************************************)
(* Properties.                                                             *)
(***************************************************************************)
\* choose was invoked by the get_variant call thread t has finished.
Chose(t) == chosenWith[t].called

\* C1: while no parse of the rule file has ever succeeded, every finished
\* get_variant call, for whichever experiment name, has returned None, and no
\* get_variant call has raised.
C1_NeverLoadedReturnsNone ==
    parsed = {} =>
        \A t \in Threads :
            /\ pc[t] = "gv_returned" => result[t] = PyNone
            /\ raised[t].in # "_get_decider"

C1_Witness ==
    \E t \in Threads :
        /\ parsed = {}
        /\ pc[t] = "gv_returned"
        /\ name[t] = "geo_test"
        /\ readExc[t] = "WatchedFileNotAvailableError"
        /\ result[t] = PyNone

\* C2: a get_variant call whose choose answered with a non-empty error string
\* returns None, whatever decision the same answer carries.
C2_ErrorTakesPrecedence ==
    \A t \in Threads :
        (pc[t] = "gv_returned" /\ Chose(t) /\ choice[t].err \notin {PyNone, ""})
            => result[t] = PyNone

C2_Witness ==
    \E t \in Threads :
        /\ pc[t] = "gv_returned"
        /\ Chose(t)
        /\ choice[t].err = "invalid targeting field"
        /\ choice[t].decision = "treatment"
        /\ result[t] = PyNone

\* C3: a get_variant call that returns a non-empty variant (handle available,
\* no engine error) has made exactly one log call of the exposure sink, for
\* its experiment name and that variant.
C3_ExposureLoggedOnce ==
    \A t \in Threads :
        (pc[t] = "gv_returned" /\ Chose(t) /\ ~Truthy(choice[t].err)
                /\ Truthy(result[t]))
            => /\ Len(exposures[t]) = 1
               /\ exposures[t][1].experiment = name[t]
               /\ exposures[t][1].variant = result[t]

\* C4: a get_variant call that returns None has made no log call of the
\* exposure sink: not with the handle unavailable, not on an engine error, not
\* when the engine decided no variant.
C4_NoExposureOnNone ==
    \A t \in Threads :
        (pc[t] = "gv_returned" /\ result[t] = PyNone) => exposures[t] = << >>

C4_Witness ==
    \E t \in Threads :
        /\ pc[t] = "gv_returned"
        /\ Chose(t)
        /\ ~Truthy(choice[t].err)
        /\ result[t] = PyNone
        /\ exposures[t] = << >>

\* Thread t has been through context assembly for request req[t], in which
\* some access raised while the user id stayed readable.
AssemblyFailedUserIdReadable(t) ==
    /\ pc[t] \in {"ready", "raised"}
    /\ raised[t].in # "warm-up read"
    /\ Performed(req[t]) \cap req[t].raises # {}
    /\ req[t].raises \cap {"edgecontext", "user.id"} = {}

\* C5: when a step of context assembly raises while the user id is readable
\* (an edge-context attribute, the request_field_extractor, the event-field
\* accessor), make_object_for_context does not raise and returns a Decider
\* whose context holds the user id and nothing else.
C5_AssemblyFailureFallsBack ==
    \A t \in Threads :
        AssemblyFailedUserIdReadable(t)
            => /\ pc[t] = "ready"
               /\ ctx[t] = DeciderContext([user_id |-> "t2_abc"])

\* The identity of request r is logged in and holds a privileged role.
PrivilegedLogin(r) == r.logged_in /\ r.roles \cap {"employee", "contractor"} # {}

\* C6 as stated: the user_is_employee of the context built for a request is
\* true exactly when the identity is logged in and holds one of the roles
\* employee and contractor, and false otherwise.
C6_Original ==
    \A t \in Threads :
        pc[t] = "ready" =>
            ctx[t].user_is_employee = PyBool(PrivilegedLogin(req[t]))

\* C6 as amended: in a context built without the fallback user_is_employee is
\* true exactly when the identity is logged in and holds one of the roles
\* employee and contractor, and false otherwise; in the fallback context it
\* is None.
C6_Amended ==
    \A t \in Threads :
        pc[t] = "ready" =>
            IF Performed(req[t]) \cap req[t].raises = {}
            THEN ctx[t].user_is_employee = PyBool(PrivilegedLogin(req[t]))
            ELSE ctx[t].user_is_employee = PyNone

C6_Witness ==
    \E t \in Threads :
        /\ pc[t] = "ready"
        /\ req[t].raises = {}
        /\ ~req[t].logged_in
        /\ req[t].roles = {"contractor"}
        /\ ctx[t].user_is_employee = PyFalse

C9_ToDictKeepsValues ==
    \A t \in Threads :
        pc[t] = "ready" =>
            LET d == to_dict(ctx[t])
            IN  /\ Cardinality(DOMAIN d) = 11
                /\ "user_event_fields" \notin DOMAIN d
                /\ \A k \in DOMAIN d :
                      d[k] = IF k \in DOMAIN kwargs[t] THEN kwargs[t][k] ELSE PyNone

C9_Witness ==
    \E t \in Threads :
        /\ pc[t] = "ready"
        /\ req[t].raises = {}
        /\ kwargs[t].country_code = ""
        /\ kwargs[t].cookie_created_timestamp = "0"
        /\ kwargs[t].user_is_employee = PyFalse
        /\ to_dict(ctx[t]).country_code = ""
        /\ to_dict(ctx[t]).build_number = PyNone

\* C10: under every interleaving of refreshes and get_variant calls the
\* watcher holds nothing or a handle a completed parse produced, every read
\* returns None or such a handle, choose is invoked only on such a handle,
\* and no read raises.
C10_ReadsSeeCompletedParses ==
    /\ fw_data \in {NOT_LOADED} \cup parsed
    /\ \A t \in Threads :
          /\ pc[t] \in {"gv_choose", "gv_returned"} => decider[t] \in {PyNone} \cup parsed
          /\ Chose(t) => chosenWith[t].handle \in parsed
          /\ raised[t].in # "_get_decider"

C10_Witness ==
    \E t \in Threads : \E u \in Threads \ {t} :
        /\ pc[t] = "gv_load"
        /\ file.kind = "malformed"
        /\ fw_data # NOT_LOADED
        /\ pc[u] = "gv_returned"
        /\ Chose(u)
        /\ chosenWith[u].handle \in parsed

====
